---- MODULE Spec2Model ----
(***************************************************************************)
(* A model of torch/fx/experimental/fx2trt/fx2trt.py: the type and device  *)
(* mapping functions, the compiled-engine wrapper TRTModule, the converter *)
(* registry CONVERTERS and the graph interpreter BaseTRTInterpreter; and   *)
(* of torch/distributed/algorithms/ddp_comm_hooks/default_hooks.py: the    *)
(* gradient communication hooks and their wrappers.                        *)
(***************************************************************************)
EXTENDS Integers, Sequences, FiniteSets, TLC

VARIABLES
    trt_version,   \* trt.__version__, a Python str (sequence of characters)
    m_arg,         \* mapping layer: the argument of the call under test
    m_call,        \* mapping layer: the function that was called, or "none"
    m_res,         \* mapping layer: outcome of that call
    m_back,        \* mapping layer: outcome of the inverse applied to m_res
    wrappers,      \* TRTModule instances by name: their attributes
    state_dict,    \* the state dict being saved / loaded: key -> value
    sd_origin,     \* attributes of the wrapper that filled state_dict (history)
    w_last,        \* the most recent wrapper operation and its outcome
    heap,          \* number of tensors torch.empty has allocated so far
    fwd_log,       \* the forward() calls made so far and their outcomes (history)
    CONVERTERS,    \* the registry: operator key -> conversion routine
    reg_log,       \* the registrations made so far, in order (history)
    looked,        \* the most recent lookup: key and result
    arg_module,    \* the traced graph handed to the interpreter
    arg_specs,     \* the list of input specifications handed to it
    arg_explicit,  \* explicit_batch_dimension handed to it
    it,            \* the BaseTRTInterpreter instance: its attributes
    pc,            \* where the interpreter is: new, constructed, walking,
                   \* visited, done or failed
    node_idx,      \* position of run()'s walk in the graph
    run_result,    \* what run() returned or raised
    caller,        \* the module object the caller hands to TRTInterpreter
    objects,       \* the graphs and parameter sets that exist, by identity
    arg_logger,    \* logger_level handed to TRTInterpreter
    caller0,       \* graph and parameters of the caller's module at first (history)
    hook_of,       \* the communication hook registered in each training run
    world,         \* each run's workers: bucket, tensors, futures, optimizer calls
    grads0,        \* the gradients each worker's bucket started with (history)
    dtype0         \* the data type the buckets started with (history)

mapVars == <<trt_version, m_arg, m_call, m_res, m_back>>
wrapVars == <<wrappers, state_dict, sd_origin, w_last, heap, fwd_log>>
regVars == <<CONVERTERS, reg_log, looked>>
itVars == <<arg_module, arg_specs, arg_explicit, it, pc, node_idx, run_result>>

callerVars == <<caller, objects, arg_logger, caller0>>
hookVars == <<hook_of, world, grads0, dtype0>>

vars == <<mapVars, wrapVars, regVars, itVars, callerVars, hookVars>>

-----------------------------------------------------------------------------
(* Python values and call outcomes.                                        *)

\* A Python object of the model: its type and a printable identity.
Val(tag, v) == [tag |-> tag, v |-> v]

NoneVal == Val("NoneType", "None")

\* A call either returns a value or raises an exception object.
Return(x) == [out |-> "return", val |-> x]
Raise(exc, offending) == [out |-> "raise", val |-> Val(exc, offending)]
NoOutcome == [out |-> "none", val |-> NoneVal]

\* bool values, and the truth value Python gives an object in  `if x:` :
\* False and None are false; an object of a class without __bool__ or
\* __len__ (a function, an enum member of the engine library) is true.
PyBool(b) == Val("bool", IF b THEN "True" ELSE "False")
Truthy(x) == x # PyBool(FALSE) /\ x # NoneVal

-----------------------------------------------------------------------------
(* Python str comparison, as used by  trt.__version__ >= '7.0'.            *)

Digits == <<"0", "1", "2", "3", "4", "5", "6", "7", "8", "9">>

\* Code point of a character of a version string.
Ord(c) == IF c = "." THEN 46 ELSE 47 + (CHOOSE i \in 1..10 : Digits[i] = c)

\* Lexicographic comparison of two str by code point: -1, 0 or 1.
RECURSIVE StrCmp(_, _)
StrCmp(a, b) ==
    IF a = <<>> /\ b = <<>> THEN 0
    ELSE IF a = <<>> THEN -1
    ELSE IF b = <<>> THEN 1
    ELSE IF Ord(Head(a)) < Ord(Head(b)) THEN -1
    ELSE IF Ord(Head(a)) > Ord(Head(b)) THEN 1
    ELSE StrCmp(Tail(a), Tail(b))

\* The literal '7.0' of the version test.
V70 == <<"7", ".", "0">>

\* trt.__version__ >= '7.0'
VersionTest == StrCmp(trt_version, V70) >= 0

\* Versions of the engine library the module can be imported under.
Versions ==
    { <<"6", ".", "0", ".", "1">>,
      <<"7", ".", "0", ".", "0">>,
      <<"8", ".", "2", ".", "1">>,
      <<"1", "0", ".", "0", ".", "1">> }

-----------------------------------------------------------------------------
(* Type / device mapping layer.                                            *)

TorchDtype(n) == Val("torch.dtype", n)
TrtDtype(n) == Val("trt.DataType", n)
TorchDevice(t) == Val("torch.device", t)
TrtLocation(n) == Val("trt.TensorLocation", n)

TorchDtypes ==
    { TorchDtype(n) : n \in {"bool", "int8", "int32", "float16", "float32",
                             "int64", "float64", "uint8"} }
TrtDtypes ==
    { TrtDtype(n) : n \in {"bool", "int8", "int32", "float16", "float32",
                           "uint8", "int64"} }
TorchDevices == { TorchDevice(t) : t \in {"cpu", "cuda", "xla", "meta"} }
TrtLocations == { TrtLocation(n) : n \in {"DEVICE", "HOST"} } \cup {NoneVal}

torch_dtype_to_trt(dtype) ==
    IF VersionTest /\ dtype = TorchDtype("bool") THEN Return(TrtDtype("bool"))
    ELSE IF dtype = TorchDtype("int8") THEN Return(TrtDtype("int8"))
    ELSE IF dtype = TorchDtype("int32") THEN Return(TrtDtype("int32"))
    ELSE IF dtype = TorchDtype("float16") THEN Return(TrtDtype("float16"))
    ELSE IF dtype = TorchDtype("float32") THEN Return(TrtDtype("float32"))
    ELSE Raise("TypeError", dtype.v)

torch_dtype_from_trt(dtype) ==
    IF dtype = TrtDtype("int8") THEN Return(TorchDtype("int8"))
    ELSE IF VersionTest /\ dtype = TrtDtype("bool") THEN Return(TorchDtype("bool"))
    ELSE IF dtype = TrtDtype("int32") THEN Return(TorchDtype("int32"))
    ELSE IF dtype = TrtDtype("float16") THEN Return(TorchDtype("float16"))
    ELSE IF dtype = TrtDtype("float32") THEN Return(TorchDtype("float32"))
    ELSE Raise("TypeError", dtype.v)

\* The else branches RETURN the TypeError object (source lines 47 and 56).
torch_device_to_trt(device) ==
    IF device.v = "cuda" THEN Return(TrtLocation("DEVICE"))
    ELSE IF device.v = "cpu" THEN Return(TrtLocation("HOST"))
    ELSE Return(Val("TypeError", device.v))

torch_device_from_trt(device) ==
    IF device = TrtLocation("DEVICE") THEN Return(TorchDevice("cuda"))
    ELSE IF device = TrtLocation("HOST") THEN Return(TorchDevice("cpu"))
    ELSE Return(Val("TypeError", device.v))

-----------------------------------------------------------------------------
(* The compiled-engine wrapper TRTModule.                                  *)

\* A Python attribute holding None or a list of str.
NoneNames == [isNone |-> TRUE, items |-> <<>>]
List(s) == [isNone |-> FALSE, items |-> s]

\* Engines are identified by the plan they were built from.
Plans == {"planA", "planB"}
Engine(p) == Val("trt.ICudaEngine", p)
Engines == { Engine(p) : p \in Plans }

\* engine.create_execution_context()
create_execution_context(engine) == Val("trt.IExecutionContext", engine.v)
\* The attribute self.context was never assigned.
NoContext == Val("unset", "")

\* bytearray(engine.serialize()) and runtime.deserialize_cuda_engine(bytes):
\* the library's plan encoding and its inverse.
EngineBytes(engine) == Val("bytearray", engine.v)
deserialize_cuda_engine(bytes) == Engine(bytes.v)

WrapperNames == {"a", "b"}
Prefixes == {"", "trt."}

NameLists == {NoneNames, List(<<"x">>), List(<<"x", "y">>)}
OutNameLists == {NoneNames, List(<<"output0">>), List(<<"output0", "output1">>)}

NotConstructed ==
    [made |-> FALSE, engine |-> NoneVal, context |-> NoContext,
     input_names |-> NoneNames, output_names |-> NoneNames, fp16_output |-> FALSE]

\* TRTModule.__init__(engine, input_names, output_names, fp16_output)
TRTModule_init(engine, input_names, output_names, fp16_output) ==
    [made |-> TRUE,
     engine |-> engine,
     context |-> IF engine # NoneVal THEN create_execution_context(engine)
                 ELSE NoContext,
     input_names |-> input_names,
     output_names |-> output_names,
     fp16_output |-> fp16_output]

\* TRTModule._on_state_dict: the entries written for a wrapper with an engine.
OnStateDictEntries(self, prefix) ==
    [k \in {prefix \o "engine", prefix \o "input_names",
            prefix \o "output_names", prefix \o "fp16_output"} |->
        IF k = prefix \o "engine" THEN EngineBytes(self.engine)
        ELSE IF k = prefix \o "input_names" THEN self.input_names
        ELSE IF k = prefix \o "output_names" THEN self.output_names
        ELSE self.fp16_output]

\* TRTModule._load_from_state_dict: the attributes of self after a load that
\* found its keys.
LoadedFrom(self, sd, prefix) ==
    [self EXCEPT
        !.engine = deserialize_cuda_engine(sd[prefix \o "engine"]),
        !.context = create_execution_context(
                        deserialize_cuda_engine(sd[prefix \o "engine"])),
        !.input_names = sd[prefix \o "input_names"],
        !.output_names = sd[prefix \o "output_names"]]

\* The bindings of an engine, in index order: their names and data types.
Binding(name, dtype) == [name |-> name, dtype |-> TrtDtype(dtype)]
EngineBindings(engine) ==
    IF engine = Engine("planA")
    THEN <<Binding("x", "float32"), Binding("output0", "float32")>>
    ELSE IF engine = Engine("planB")
    THEN <<Binding("output1", "float16"), Binding("x", "float32"),
           Binding("output0", "float32"), Binding("y", "int32")>>
    ELSE <<>>

\* engine.get_binding_index(name): the index, counted from 0, or -1.
get_binding_index(eb, name) ==
    IF \E k \in 1..Len(eb) : eb[k].name = name
    THEN (CHOOSE k \in 1..Len(eb) :
             /\ eb[k].name = name
             /\ \A j \in 1..(k - 1) : eb[j].name # name) - 1
    ELSE -1

\* Tensors are identified by their buffer (data_ptr()).
Tensor(buf) == Val("torch.Tensor", buf)

\* A torch.empty that hands out the same buffer again.
torch_empty_Reuse(n) == Tensor("buf1")

\* torch.empty(...): the n-th tensor allocated has a buffer of its own.
torch_empty(n) == Tensor("buf" \o ToString(n))

\* list[idx] = x  for a Python list of length Len(list): the position written,
\* or 0 when the index is out of range (IndexError).
ListPos(list, idx) ==
    IF idx >= 0 /\ idx < Len(list) THEN idx + 1
    ELSE IF idx < 0 /\ -idx <= Len(list) THEN Len(list) + idx + 1
    ELSE 0

\* The first loop of forward(): one tensor allocated and bound per output name.
\* st carries the heap, the outputs so far, the bindings list and the
\* exception that ended the call, if any.
RECURSIVE CreateOutputs(_, _, _, _)
CreateOutputs(self, eb, st, i) ==
    IF i > Len(self.output_names.items) THEN st
    ELSE IF self.engine = NoneVal
    THEN [st EXCEPT !.exc = Val("AttributeError", "get_binding_index")]
    ELSE
      LET idx == get_binding_index(eb, self.output_names.items[i])
          dt == torch_dtype_from_trt(eb[idx + 1].dtype)
          t == torch_empty(st.heap + 1)
          pos == ListPos(st.bindings, idx)
      IN
      IF dt.out = "raise" THEN [st EXCEPT !.exc = dt.val]
      ELSE IF pos = 0
      THEN [st EXCEPT !.heap = @ + 1, !.outputs = Append(@, t),
                      !.exc = Val("IndexError", "list assignment index out of range")]
      ELSE CreateOutputs(self, eb,
                         [st EXCEPT !.heap = @ + 1, !.outputs = Append(@, t),
                                    !.bindings[pos] = t],
                         i + 1)

\* The second loop of forward(): the i-th input bound at the index of the
\* i-th input name.
RECURSIVE BindInputs(_, _, _, _, _)
BindInputs(self, eb, inputs, st, i) ==
    IF i > Len(self.input_names.items) THEN st
    ELSE IF self.engine = NoneVal
    THEN [st EXCEPT !.exc = Val("AttributeError", "get_binding_index")]
    ELSE
      LET idx == get_binding_index(eb, self.input_names.items[i])
          pos == ListPos(st.bindings, idx)
      IN
      IF i > Len(inputs)
      THEN [st EXCEPT !.exc = Val("IndexError", "list index out of range")]
      ELSE IF pos = 0
      THEN [st EXCEPT !.exc = Val("IndexError", "list assignment index out of range")]
      ELSE BindInputs(self, eb, inputs, [st EXCEPT !.bindings[pos] = inputs[i]],
                      i + 1)

\* What forward() hands back: outputs[0] for one output, else tuple(outputs).
ForwardResult(outputs) ==
    [isTuple |-> Len(outputs) # 1, elems |-> outputs]

NoTensors == [isTuple |-> TRUE, elems |-> <<>>]

\* TRTModule.forward(*inputs) on a wrapper whose engine has bindings eb, with
\* h tensors allocated before the call.  Inputs are contiguous tensors, so
\* contiguous() returns them as they are.
forward(self, eb, inputs, h) ==
    LET st0 == [heap |-> h, outputs |-> <<>>, bindings |-> <<>>, exc |-> NoneVal]
        failed(st, e) == [out |-> "raise", exc |-> e, val |-> NoTensors,
                          bindings |-> st.bindings, heap |-> st.heap]
    IN
    IF inputs = <<>>
    THEN failed(st0, Val("IndexError", "tuple index out of range"))
    ELSE IF self.input_names.isNone \/ self.output_names.isNone
    THEN failed(st0, Val("TypeError", "object of type 'NoneType' has no len()"))
    ELSE
      LET n == Len(self.input_names.items) + Len(self.output_names.items)
          st1 == CreateOutputs(self, eb, [st0 EXCEPT !.bindings = [k \in 1..n |-> NoneVal]], 1)
          st2 == IF st1.exc # NoneVal THEN st1 ELSE BindInputs(self, eb, inputs, st1, 1)
      IN
      IF st2.exc # NoneVal THEN failed(st2, st2.exc)
      ELSE IF self.context = NoContext
      THEN failed(st2, Val("AttributeError", "context"))
      ELSE [out |-> "return", exc |-> NoneVal, val |-> ForwardResult(st2.outputs),
            bindings |-> st2.bindings, heap |-> st2.heap]

\* Every output name of the wrapper is a binding of its engine.  (What the
\* engine answers for the index -1 of an unknown name is the library's affair.)
OutputsBound(self, eb) ==
    self.engine = NoneVal
        \/ self.output_names.isNone
        \/ \A i \in 1..Len(self.output_names.items) :
              get_binding_index(eb, self.output_names.items[i]) >= 0

EmptyDict == [k \in {} |-> NoneVal]
NoOp == [op |-> "none", w |-> "", exc |-> "none"]

-----------------------------------------------------------------------------
(* The operator conversion registry CONVERTERS.                            *)

\* Operator identities used as keys: a module type, a function, a method name.
ModuleKey == Val("type", "Linear")
FunctionKey == Val("function", "relu")
MethodKey == Val("str", "add")
Keys == {ModuleKey, FunctionKey, MethodKey}

\* Conversion routines (Python functions) that get registered.
Routines == {Val("function", "conv1"), Val("function", "conv2")}

\* CONVERTERS = {}
EmptyRegistry == [k \in {} |-> NoneVal]

\* A registration that keeps an entry already present (dict.setdefault).
tensorrt_converter_KeepFirst(conv, key, converter) ==
    [dict |-> [k \in DOMAIN conv \cup {key} |->
                  IF k \in DOMAIN conv THEN conv[k] ELSE converter],
     ret |-> converter]

\* tensorrt_converter(key)(converter): the dict afterwards and the value returned.
tensorrt_converter(conv, key, converter) ==
    [dict |-> [k \in DOMAIN conv \cup {key} |->
                  IF k = key THEN converter ELSE conv[k]],
     ret |-> converter]

\* A lookup that falls back to a routine for a key that is absent.
ConvertersGet_Fallback(conv, key) ==
    IF key \in DOMAIN conv THEN conv[key] ELSE Val("function", "conv1")

\* CONVERTERS.get(key)
ConvertersGet(conv, key) == IF key \in DOMAIN conv THEN conv[key] ELSE NoneVal

-----------------------------------------------------------------------------
(* Input specifications and traced graphs.                                 *)

\* InputTensorSpec(shape, dtype, device, has_batch_dim)
InputTensorSpec(shape, dtype, device, has_batch_dim) ==
    [shape |-> shape, dtype |-> dtype, device |-> device,
     has_batch_dim |-> has_batch_dim]

\* A node of a traced graph.  args is the node's single positional structure:
\* for a call the tuple of its arguments, for the output node args[0], which
\* is one result (isTuple = FALSE) or a tuple of results.
Node(op, name, target, isTuple, elems) ==
    [op |-> op, name |-> name, target |-> target,
     args |-> [isTuple |-> isTuple, elems |-> elems]]

\* An argument is a reference to an earlier node or an immediate constant.
Ref(name) == Val("Node", name)
Const == Val("int", "3")

\* The submodules of the traced module, by qualified path: their types.
SubmoduleType(path) == IF path = "fc" THEN ModuleKey ELSE NoneVal

-----------------------------------------------------------------------------
(* The network under construction (trt.INetworkDefinition).                *)

\* The handle of the i-th tensor created in a network.
ITensor(i) == Val("trt.ITensor", ToString(i))
IsITensor(x) == x.tag = "trt.ITensor"

\* builder.create_network(flags)
create_network(explicit) ==
    [implicit |-> ~explicit, tensors |-> <<>>, inputs |-> <<>>,
     outputs |-> <<>>, layers |-> <<>>]

TensorIndex(net, h) == CHOOSE i \in 1..Len(net.tensors) : ITensor(i) = h

\* network.add_input(name, shape, dtype): the network afterwards and the tensor.
add_input(net, name, shape, dtype) ==
    [net |-> [net EXCEPT
                !.tensors = Append(@, [name |-> name, dtype |-> dtype]),
                !.inputs = Append(@, [name |-> name, shape |-> shape,
                                      dtype |-> dtype,
                                      tensor |-> ITensor(Len(net.tensors) + 1)])],
     ret |-> ITensor(Len(net.tensors) + 1)]

\* A conversion routine called with (network, target, args, kwargs, name): it
\* adds one layer, named after the node, and returns the layer's new tensor.
RunConverter(net, routine, args, name) ==
    [net |-> [net EXCEPT
                !.tensors = Append(@, [name |-> name \o "_output",
                                       dtype |-> TrtDtype("float32")]),
                !.layers = Append(@, [name |-> name, routine |-> routine,
                                      args |-> args])],
     ret |-> ITensor(Len(net.tensors) + 1)]

\* output.name = name
SetTensorName(net, h, name) ==
    [net EXCEPT !.tensors[TensorIndex(net, h)].name = name]

\* output.dtype = dtype
SetTensorDtype(net, h, dtype) ==
    [net EXCEPT !.tensors[TensorIndex(net, h)].dtype = dtype]

\* network.mark_output(tensor)
mark_output(net, h) == [net EXCEPT !.outputs = Append(@, h)]

-----------------------------------------------------------------------------
(* BaseTRTInterpreter.                                                     *)

\* The outcome of a node handler: the interpreter afterwards, and the value
\* returned or the exception raised.
Returned(self, x) == [self |-> self, out |-> "return", val |-> x]
Raised(self, exc, msg) == [self |-> self, out |-> "raise", val |-> Val(exc, msg)]

EmptyEnv == [n \in {} |-> NoneVal]

NoInterpreter ==
    [made |-> FALSE, module |-> <<>>, input_specs |-> <<>>, spec_pos |-> 0,
     network |-> create_network(FALSE), cur_node_name |-> NoneVal,
     input_names |-> <<>>, output_names |-> <<>>, env |-> EmptyEnv,
     fp16_mode |-> "unset", config_created |-> FALSE, build_calls |-> 0,
     built |-> NoneVal, logger_level |-> NoneVal]

\* BaseTRTInterpreter.__init__(module, input_specs, explicit_batch_dimension,
\* logger_level)
BaseTRTInterpreter_init(module, input_specs, explicit_batch_dimension, logger_level) ==
    [made |-> TRUE,
     module |-> module,
     input_specs |-> input_specs,
     spec_pos |-> 0,
     logger_level |-> logger_level,
     network |-> create_network(Truthy(explicit_batch_dimension)),
     cur_node_name |-> NoneVal,
     input_names |-> <<>>,
     output_names |-> <<>>,
     env |-> EmptyEnv,
     fp16_mode |-> "unset",
     config_created |-> FALSE,
     build_calls |-> 0,
     built |-> NoneVal]

\* The severities of trt.Logger, and the default of logger_level.
Severity(n) == Val("trt.Logger.Severity", n)
DefaultLoggerLevel == Severity("WARNING")

\* A module object: its class, and the identities of its graph (for a module
\* that is not traced: of its forward code) and of its set of parameters.
Module(kind, graph, params) == [kind |-> kind, graph |-> graph, params |-> params]
NoModule == Module("none", 0, 0)
NoObjects == [graphs |-> <<>>, params |-> <<>>]

\* torch.fx.symbolic_trace(module): a GraphModule with a graph of its own
\* that refers to the parameters and submodules of module itself.
symbolic_trace(objs, module) ==
    [objs |-> [objs EXCEPT !.graphs = Append(@, objs.graphs[module.graph])],
     ret |-> Module("GraphModule", Len(objs.graphs) + 1, module.params)]

\* copy.deepcopy(module): copies of the graph and of the parameters.
deepcopy(objs, module) ==
    [objs |-> [objs EXCEPT !.graphs = Append(@, objs.graphs[module.graph]),
                           !.params = Append(@, objs.params[module.params])],
     ret |-> Module(module.kind, Len(objs.graphs) + 1, Len(objs.params) + 1)]

\* Lines 285-288: trace a module that is no GraphModule, copy one that is.
Preprocessed(objs, module) ==
    IF module.kind # "GraphModule" THEN symbolic_trace(objs, module)
    ELSE deepcopy(objs, module)

\* module.cpu().float(): the parameters converted in place; returns module.
cpu_float(objs, module) ==
    [objs |-> [objs EXCEPT !.params[module.params] =
                  [device |-> TorchDevice("cpu"), dtype |-> TorchDtype("float32")]],
     ret |-> module]

\* NormalizeArgs(module).transform(): a new GraphModule on the same
\* parameters whose graph has the arguments of its calls normalized.
NormalizeArgs_transform(objs, module) ==
    [objs |-> [objs EXCEPT !.graphs =
                  Append(@, [objs.graphs[module.graph] EXCEPT !.normalized = TRUE])],
     ret |-> Module("GraphModule", Len(objs.graphs) + 1, module.params)]

\* TRTInterpreter.__init__(module, input_specs, logger_level): the objects
\* afterwards and the interpreter.
TRTInterpreter_init(objs, module, input_specs, logger_level) ==
    LET m1 == Preprocessed(objs, module)
        m2 == cpu_float(m1.objs, m1.ret)
        m3 == NormalizeArgs_transform(m2.objs, m2.ret)
    IN [objs |-> m3.objs,
        self |-> BaseTRTInterpreter_init(m3.objs.graphs[m3.ret.graph].nodes,
                                         input_specs, logger_level,
                                         DefaultLoggerLevel)]

\* A slice that keeps the whole shape.
DropFirst_Whole(shape) == shape

\* shape[1:]
DropFirst(shape) == SubSeq(shape, 2, Len(shape))

\* next(self.input_specs_iter) when a specification remains: the specification
\* and the interpreter with its iterator advanced.
NextSpec_Peek(self) ==
    [spec |-> self.input_specs[1], self |-> self]

NextSpec(self) ==
    [spec |-> self.input_specs[self.spec_pos + 1],
     self |-> [self EXCEPT !.spec_pos = @ + 1]]

\* The assertion of placeholder() fails: an explicit-batch network and a
\* specification without a batch dimension.
BatchDimMissing_Never(net, spec) == FALSE

BatchDimMissing(net, spec) == ~net.implicit /\ ~spec.has_batch_dim

\* placeholder(target, args, kwargs)
placeholder(self, target) ==
    LET s1 == [self EXCEPT !.input_names = Append(@, target)] IN
    IF s1.spec_pos >= Len(s1.input_specs)
    THEN Raised(s1, "StopIteration", "")
    ELSE
      LET nx == NextSpec(s1)
          spec == nx.spec
          s2 == nx.self
          shape == IF s2.network.implicit /\ spec.has_batch_dim
                   THEN DropFirst(spec.shape) ELSE spec.shape
          dt == torch_dtype_to_trt(spec.dtype)
      IN
      IF BatchDimMissing(s2.network, spec)
      THEN Raised(s2, "AssertionError",
                  "It's required to specify batch dimension when it's explicit in TensorRT network.")
      ELSE IF dt.out = "raise"
      THEN Raised(s2, dt.val.tag, dt.val.v)
      ELSE LET added == add_input(s2.network, target, shape, dt.val)
           IN Returned([s2 EXCEPT !.network = added.net], added.ret)

\* The shared body of call_module / call_function / call_method once the key
\* and the operator's printed identity are known.
CallWith(self, key, conv, args, what) ==
    LET converter == ConvertersGet(conv, key) IN
    IF converter = NoneVal
    THEN Raised(self, "RuntimeError",
                "Conversion of " \o what \o " not currently supported!")
    ELSE LET r == RunConverter(self.network, converter, args, self.cur_node_name.v)
         IN Returned([self EXCEPT !.network = r.net], r.ret)

\* call_module(target, args, kwargs): the key is type(self.fetch_attr(target)).
call_module(self, conv, target, args) ==
    CallWith(self, SubmoduleType(target.v), conv, args,
             "module of type " \o SubmoduleType(target.v).v)

\* call_function(target, args, kwargs): the key is the function itself.
call_function(self, conv, target, args) ==
    CallWith(self, target, conv, args, "function " \o target.v)

\* call_method(target, args, kwargs): the key is the method's name.
call_method(self, conv, target, args) ==
    CallWith(self, target, conv, args, "method " \o target.v)

\* The loop of output(): results i..n of outputs named, marked and typed in turn.
RECURSIVE NameOutputs(_, _, _)
NameOutputs(self, outputs, i) ==
    IF i > Len(outputs) THEN self
    ELSE
      LET name == "output" \o ToString(i - 1)
          n1 == SetTensorName(self.network, outputs[i], name)
          n2 == mark_output(n1, outputs[i])
          n3 == SetTensorDtype(n2, outputs[i],
                               IF self.fp16_mode = "True" THEN TrtDtype("float16")
                               ELSE TrtDtype("float32"))
      IN NameOutputs([self EXCEPT !.network = n3,
                                  !.output_names = Append(@, name)],
                     outputs, i + 1)

\* An output() that checks each result only when the loop reaches it.
RECURSIVE NameOutputsChecking(_, _, _)
NameOutputsChecking(self, outputs, i) ==
    IF i > Len(outputs) THEN Returned(self, NoneVal)
    ELSE IF ~IsITensor(outputs[i])
    THEN Raised(self, "RuntimeError", "TensorRT requires all outputs to be Tensor!")
    ELSE NameOutputsChecking(NameOutputs(self, SubSeq(outputs, 1, i), i), outputs, i + 1)

output_CheckInLoop(self, arg0) == NameOutputsChecking(self, arg0.elems, 1)

\* output(target, args, kwargs), args[0] already resolved to values:
\* outputs = args[0] if isinstance(args[0], tuple) else (args[0],)  is arg0.elems.
output(self, arg0) ==
    LET outputs == arg0.elems IN
    IF \E i \in 1..Len(outputs) : ~IsITensor(outputs[i])
    THEN Raised(self, "RuntimeError", "TensorRT requires all outputs to be Tensor!")
    ELSE Returned(NameOutputs(self, outputs, 1), NoneVal)

\* Interpreter.fetch_args_kwargs_from_env: node references replaced by the
\* values computed for them.
Resolve(self, args) ==
    [args EXCEPT !.elems = [i \in 1..Len(args.elems) |->
        IF args.elems[i].tag = "Node" THEN self.env[args.elems[i].v]
        ELSE args.elems[i]]]

\* A run_node that dispatches without recording the node's name.
run_node_StaleName(self, conv, n) ==
    LET args == Resolve(self, n.args) IN
    IF n.op = "placeholder" THEN placeholder(self, n.target.v)
    ELSE IF n.op = "call_module" THEN call_module(self, conv, n.target, args)
    ELSE IF n.op = "call_function" THEN call_function(self, conv, n.target, args)
    ELSE IF n.op = "call_method" THEN call_method(self, conv, n.target, args)
    ELSE output(self, args)

\* run_node(n): record the node's name, then dispatch on its kind.
run_node(self, conv, n) ==
    LET s == [self EXCEPT !.cur_node_name = Val("str", n.name)]
        args == Resolve(s, n.args)
    IN
    IF n.op = "placeholder" THEN placeholder(s, n.target.v)
    ELSE IF n.op = "call_module" THEN call_module(s, conv, n.target, args)
    ELSE IF n.op = "call_function" THEN call_function(s, conv, n.target, args)
    ELSE IF n.op = "call_method" THEN call_method(s, conv, n.target, args)
    ELSE output(s, args)

\* The bindings of an engine built from a network: its inputs, then its
\* outputs, each under the name its tensor has when the engine is built.
NetworkBindings(net) ==
    [k \in 1..Len(net.inputs) |->
        net.tensors[TensorIndex(net, net.inputs[k].tensor)]]
    \o [k \in 1..Len(net.outputs) |->
          net.tensors[TensorIndex(net, net.outputs[k])]]

\* self.builder.build_engine(self.network, builder_config), the builder
\* answering with engine: the interpreter afterwards.
build_engine(self, engine) ==
    [self EXCEPT !.config_created = TRUE, !.build_calls = @ + 1, !.built = engine]

\* An end of run() that hands back whatever the builder answered.
RunReturn_Unchecked(self, engine) ==
    [out |-> "return", exc |-> NoneVal, engine |-> engine,
     input_names |-> self.input_names, output_names |-> self.output_names]

\* assert(engine); return engine, self._input_names, self._output_names
RunReturn(self, engine) ==
    IF ~Truthy(engine)
    THEN [out |-> "raise", exc |-> Val("AssertionError", ""), engine |-> NoneVal,
          input_names |-> <<>>, output_names |-> <<>>]
    ELSE [out |-> "return", exc |-> NoneVal, engine |-> engine,
          input_names |-> self.input_names, output_names |-> self.output_names]

-----------------------------------------------------------------------------
(* Gradient tensors, buckets, collectives and futures (default_hooks.py).  *)

Float32 == TorchDtype("float32")
Float16 == TorchDtype("float16")

\* Gradient values are counted in units of the float32 spacing; float16
\* represents every fourth of them.
Grid(dtype) == IF dtype = Float16 THEN 4 ELSE 1

\* The integer nearest to x / d, ties to the even one (x >= 0, d > 0).
NearestMul(x, d) ==
    LET q == x \div d
        r == x % d
    IN IF 2 * r < d THEN q
       ELSE IF 2 * r > d THEN q + 1
       ELSE IF q % 2 = 0 THEN q ELSE q + 1

\* The values of a tensor converted to dtype, and divided by n in dtype.
Cast(data, dtype) ==
    [i \in 1..Len(data) |-> NearestMul(data[i], Grid(dtype)) * Grid(dtype)]
Div(data, n, dtype) ==
    [i \in 1..Len(data) |-> NearestMul(data[i], n * Grid(dtype)) * Grid(dtype)]

GradTensor(dtype, data) == [dtype |-> dtype, data |-> data]

\* A worker before its hook is called: the tensors that exist (a tensor is
\* known by its position here), the tensor its bucket holds, the tensor handed
\* to all_reduce, the futures created (the first is all_reduce's, each later
\* one is the previous one's then(cb)), and the step_param calls made.
NewWorker(dtype, data) ==
    [tensors |-> <<GradTensor(dtype, data)>>, bucket |-> 1, called |-> FALSE,
     reducing |-> 0, futs |-> <<>>, steps |-> <<>>]

\* tensor.to(dtype): the tensor itself when it has that type, else a new one.
To(st, t, dtype) ==
    IF st.tensors[t].dtype = dtype THEN [st |-> st, ret |-> t]
    ELSE [st |-> [st EXCEPT !.tensors =
                     Append(@, GradTensor(dtype, Cast(st.tensors[t].data, dtype)))],
          ret |-> Len(st.tensors) + 1]

\* tensor.div_(n)
div_(st, t, n) ==
    [st EXCEPT !.tensors[t].data = Div(@, n, st.tensors[t].dtype)]

\* dst.copy_(src)
copy_(st, dst, src) ==
    [st EXCEPT !.tensors[dst].data = Cast(st.tensors[src].data, st.tensors[dst].dtype)]

\* bucket.set_tensor(t)
set_tensor(st, t) == [st EXCEPT !.bucket = t]

\* dist.all_reduce(t, group, async_op=True).get_future()
all_reduce(st, t) ==
    [st EXCEPT !.reducing = t,
               !.futs = <<[cb |-> "all_reduce", done |-> FALSE, value |-> 0]>>]

\* fut.then(cb) on the newest future: a new future, the newest from now on.
Then(st, cb) ==
    [st EXCEPT !.futs = Append(@, [cb |-> cb, done |-> FALSE, value |-> 0])]

\* _allreduce_fut(process_group, tensor)
_allreduce_fut(st, size, tensor) == all_reduce(div_(st, tensor, size), tensor)

\* allreduce_hook(process_group, bucket)
allreduce_hook(st, size) == _allreduce_fut(st, size, st.bucket)

\* fp16_compress_hook(process_group, bucket)
fp16_compress_hook(st, size) ==
    LET c == To(st, st.bucket, Float16)
        compressed_tensor == c.ret
    IN Then(all_reduce(div_(c.st, compressed_tensor, size), compressed_tensor),
            "decompress")

\* A hook is a base hook inside wrappers, listed from the innermost out.
Hook(base, wraps) == [base |-> base, wraps |-> wraps]
NoHook == Hook("none", <<>>)

\* The hook made of the base hook and its first k wrappers, called on a
\* worker: fp16_compress_wrapper_hook and hook_then_optimizer_wrapper.
RECURSIVE CallHook(_, _, _, _)
CallHook(st, size, hook, k) ==
    IF k = 0
    THEN IF hook.base = "allreduce_hook" THEN allreduce_hook(st, size)
         ELSE fp16_compress_hook(st, size)
    ELSE IF hook.wraps[k] = "fp16_compress_wrapper"
    THEN LET c == To(st, st.bucket, Float16)
         IN Then(CallHook(set_tensor(c.st, c.ret), size, hook, k - 1), "decompress")
    ELSE Then(CallHook(st, size, hook, k - 1), "optimizer_step")

\* Future j of the worker completes with value t.
Complete(st, j, t) == [st EXCEPT !.futs[j].done = TRUE, !.futs[j].value = t]

\* decompress(fut), the callback of future j: fut is future j - 1, whose
\* value is the list [tensor] of all_reduce.
decompress(st, j) ==
    LET decompressed_tensor == st.bucket
    IN Complete(copy_(st, decompressed_tensor, st.futs[j - 1].value),
                j, decompressed_tensor)

\* The parameters of the model whose gradients a bucket carries, in order.
ModelParams == <<"weight", "bias">>

\* bucket.get_per_parameter_tensors(): one slice of the bucket's tensor per
\* parameter.
get_per_parameter_tensors(st) ==
    [i \in 1..Len(st.tensors[st.bucket].data) |->
        [tensor |-> st.bucket, slice |-> i, value |-> st.tensors[st.bucket].data[i]]]

Min(a, b) == IF a < b THEN a ELSE b

\* An optimizer step that skips the first pair of the bucket.
StepParams_SkipFirst(st, j) ==
    LET g == get_per_parameter_tensors(st)
    IN [i \in 1..(Min(Len(g), Len(ModelParams)) - 1) |->
          [param |-> ModelParams[i + 1], grad |-> g[i + 1],
           fut_done |-> st.futs[j - 1].done]]

\* The loop of optimizer_step: the step_param calls it makes, in order.
StepParams(st, j) ==
    LET g == get_per_parameter_tensors(st)
    IN [i \in 1..Min(Len(g), Len(ModelParams)) |->
          [param |-> ModelParams[i], grad |-> g[i],
           fut_done |-> st.futs[j - 1].done]]

\* optimizer_step(fut), the callback of future j.
optimizer_step(st, j) ==
    Complete([st EXCEPT !.steps = @ \o StepParams(st, j)], j, st.bucket)

-----------------------------------------------------------------------------
(* Bounds and input pools.                                                 *)

MaxPlaceholders == 2   \* placeholder nodes of a graph of placeholders
MaxGraphInputs == 1    \* placeholder nodes of a graph with calls
MaxSpecs == 2          \* input specifications supplied
MaxCalls == 1          \* call nodes of a graph
MaxOutputs == 2        \* results in the tuple of the output node
MaxRegs == 3           \* registrations performed
MaxInvokes == 2        \* forward() calls made on a wrapper
MaxInputs == 2         \* positional inputs of a forward() call
WorldSize == 2         \* workers of the process group

SeqsUpTo(S, n) == UNION { [1..k -> S] : k \in 0..n }

Shapes == { <<>>, <<3>>, <<1, 3>> }
SpecDtypes == { TorchDtype("float32"), TorchDtype("int64") }
SpecPool ==
    { InputTensorSpec(s, d, TorchDevice("cpu"), h) :
        s \in Shapes, d \in SpecDtypes, h \in BOOLEAN }

\* The specification InputTensorSpec.from_tensor gives for a [1, 3] float tensor.
DefaultSpec ==
    InputTensorSpec(<<1, 3>>, TorchDtype("float32"), TorchDevice("cpu"), TRUE)

PlaceholderName(k) == "x" \o ToString(k)
CallName(j) == "n" \o ToString(j)

PlaceholderNodes(p) ==
    [k \in 1..p |-> Node("placeholder", PlaceholderName(k),
                         Val("str", PlaceholderName(k)), TRUE, <<>>)]

OpKinds == {"call_module", "call_function", "call_method"}

CallTarget(kind) ==
    IF kind = "call_module" THEN Val("str", "fc")
    ELSE IF kind = "call_function" THEN FunctionKey
    ELSE MethodKey

\* Call j of a graph with p placeholders takes the node before it as argument.
CallNodes(p, kinds) ==
    [j \in 1..Len(kinds) |->
        Node(kinds[j], CallName(j), CallTarget(kinds[j]), TRUE,
             IF j > 1 THEN <<Ref(CallName(j - 1))>>
             ELSE IF p > 0 THEN <<Ref(PlaceholderName(p))>>
             ELSE <<>>)]

OutputNode(isTuple, elems) ==
    Node("output", "output", Val("str", "output"), isTuple, elems)

\* What the output node may carry: any earlier node or a constant; alone or
\* in a tuple.
OutElems(p, c) ==
    { Ref(PlaceholderName(k)) : k \in 1..p } \cup { Ref(CallName(j)) : j \in 1..c }
        \cup {Const}
OutArgs(E) ==
    { [isTuple |-> FALSE, elems |-> <<e>>] : e \in E }
        \cup { [isTuple |-> TRUE, elems |-> t] : t \in SeqsUpTo(E, MaxOutputs) }

\* Graphs with calls and every form of output.
GraphsCalls ==
    UNION { UNION { { PlaceholderNodes(p) \o CallNodes(p, kinds)
                        \o <<OutputNode(o.isTuple, o.elems)>> :
                      o \in OutArgs(OutElems(p, Len(kinds))) } :
                    kinds \in SeqsUpTo(OpKinds, MaxCalls) } :
            p \in 0..MaxGraphInputs }

\* Graphs of placeholders only, all of them returned.
GraphsInputs ==
    { PlaceholderNodes(p)
        \o <<OutputNode(TRUE, [k \in 1..p |-> Ref(PlaceholderName(k))])>> :
      p \in 0..MaxPlaceholders }

NumPlaceholders(g) == Cardinality({ i \in 1..Len(g) : g[i].op = "placeholder" })

\* Registries a load phase can leave behind: any set of keys registered.
Registries == { [k \in S |-> Val("function", "conv1")] : S \in SUBSET Keys }

-----------------------------------------------------------------------------
(* Idle values of each part, for the specifications that do not drive it.  *)

MapIdle ==
    /\ m_arg = NoneVal
    /\ m_call = "none"
    /\ m_res = NoOutcome
    /\ m_back = NoOutcome

WrapIdle ==
    /\ wrappers = [w \in WrapperNames |-> NotConstructed]
    /\ state_dict = EmptyDict
    /\ sd_origin = NotConstructed
    /\ w_last = NoOp
    /\ heap = 0
    /\ fwd_log = <<>>

NoLookup == [key |-> NoneVal, result |-> NoneVal]

RegIdle ==
    /\ reg_log = <<>>
    /\ looked = NoLookup

NoResult ==
    [out |-> "none", exc |-> NoneVal, engine |-> NoneVal,
     input_names |-> <<>>, output_names |-> <<>>]

\* The engines the builder may hand back for a network: one, or none.
BuilderAnswers == {Engine("planA"), NoneVal}

InterpIdle ==
    /\ arg_module = <<>>
    /\ arg_specs = <<>>
    /\ arg_explicit = FALSE
    /\ it = NoInterpreter
    /\ pc = "new"
    /\ node_idx = 0
    /\ run_result = NoResult

Runs == {"r1", "r2"}
Workers == 1..WorldSize

\* Gradient values a bucket may start with; the data have one value per
\* model parameter.
GradValues == {1, 6}
GradData == [1..Len(ModelParams) -> GradValues]

HookIdle ==
    /\ hook_of = [r \in Runs |-> NoHook]
    /\ world = [r \in Runs |-> [k \in Workers |-> NewWorker(Float32, <<0, 0>>)]]
    /\ grads0 = [k \in Workers |-> <<0, 0>>]
    /\ dtype0 = Float32

CallerIdle ==
    /\ caller = NoModule
    /\ objects = NoObjects
    /\ arg_logger = DefaultLoggerLevel
    /\ caller0 = NoObjects

\* The engine library the interpreter and the wrapper are exercised with.
DefaultVersion == <<"8", ".", "2", ".", "1">>

-----------------------------------------------------------------------------
(* The mapping layer driven on every argument of its domain.               *)

MapArgs == TorchDtypes \cup TrtDtypes \cup TorchDevices \cup TrtLocations

MapInit ==
    /\ trt_version \in Versions
    /\ m_arg \in MapArgs
    /\ m_call = "none"
    /\ m_res = NoOutcome
    /\ m_back = NoOutcome
    /\ WrapIdle
    /\ CONVERTERS = EmptyRegistry
    /\ RegIdle
    /\ CallerIdle
    /\ HookIdle
    /\ InterpIdle

CallDtypeToTrt ==
    /\ m_call = "none"
    /\ m_arg \in TorchDtypes
    /\ m_call' = "torch_dtype_to_trt"
    /\ m_res' = torch_dtype_to_trt(m_arg)
    /\ UNCHANGED <<trt_version, m_arg, m_back, wrapVars, regVars, itVars, callerVars, hookVars>>

CallDtypeFromTrt ==
    /\ m_call = "none"
    /\ m_arg \in TrtDtypes
    /\ m_call' = "torch_dtype_from_trt"
    /\ m_res' = torch_dtype_from_trt(m_arg)
    /\ UNCHANGED <<trt_version, m_arg, m_back, wrapVars, regVars, itVars, callerVars, hookVars>>

\* torch_dtype_from_trt(torch_dtype_to_trt(d)): runs only if the inner call returned.
CallDtypeBack ==
    /\ m_call = "torch_dtype_to_trt"
    /\ m_res.out = "return"
    /\ m_back = NoOutcome
    /\ m_back' = torch_dtype_from_trt(m_res.val)
    /\ UNCHANGED <<trt_version, m_arg, m_call, m_res, wrapVars, regVars, itVars, callerVars, hookVars>>

CallDeviceToTrt ==
    /\ m_call = "none"
    /\ m_arg \in TorchDevices
    /\ m_call' = "torch_device_to_trt"
    /\ m_res' = torch_device_to_trt(m_arg)
    /\ UNCHANGED <<trt_version, m_arg, m_back, wrapVars, regVars, itVars, callerVars, hookVars>>

CallDeviceFromTrt ==
    /\ m_call = "none"
    /\ m_arg \in TrtLocations
    /\ m_call' = "torch_device_from_trt"
    /\ m_res' = torch_device_from_trt(m_arg)
    /\ UNCHANGED <<trt_version, m_arg, m_back, wrapVars, regVars, itVars, callerVars, hookVars>>

MapNext ==
    \/ CallDtypeToTrt
    \/ CallDtypeFromTrt
    \/ CallDtypeBack
    \/ CallDeviceToTrt
    \/ CallDeviceFromTrt

SpecMap == MapInit /\ [][MapNext]_vars

-----------------------------------------------------------------------------
(* The wrapper driven through construction, save and load.                 *)

NewTRTModule(w) ==
    /\ ~wrappers[w].made
    /\ \E e \in Engines \cup {NoneVal}, ins \in NameLists, outs \in OutNameLists,
          fp16 \in BOOLEAN :
          wrappers' = [wrappers EXCEPT ![w] = TRTModule_init(e, ins, outs, fp16)]
    /\ w_last' = [op |-> "init", w |-> w, exc |-> "none"]
    /\ UNCHANGED <<state_dict, sd_origin, heap, fwd_log, mapVars, regVars, itVars, callerVars, hookVars>>

\* module.state_dict(prefix=p) of a fresh dict: the hook fills it, or fails on
\* self.engine.serialize() when the wrapper has no engine.
OnStateDict(w) ==
    /\ wrappers[w].made
    /\ \E p \in Prefixes :
          IF wrappers[w].engine = NoneVal
          THEN /\ w_last' = [op |-> "state_dict", w |-> w, exc |-> "AttributeError"]
               /\ UNCHANGED <<state_dict, sd_origin>>
          ELSE /\ state_dict' = OnStateDictEntries(wrappers[w], p)
               /\ sd_origin' = wrappers[w]
               /\ w_last' = [op |-> "state_dict", w |-> w, exc |-> "none"]
    /\ UNCHANGED <<wrappers, heap, fwd_log, mapVars, regVars, itVars, callerVars, hookVars>>

LoadFromStateDict(w) ==
    /\ wrappers[w].made
    /\ state_dict # EmptyDict
    /\ \E p \in Prefixes :
          IF (p \o "engine") \notin DOMAIN state_dict
          THEN /\ w_last' = [op |-> "load", w |-> w, exc |-> "KeyError"]
               /\ UNCHANGED wrappers
          ELSE /\ wrappers' = [wrappers EXCEPT
                                  ![w] = LoadedFrom(wrappers[w], state_dict, p)]
               /\ w_last' = [op |-> "load", w |-> w, exc |-> "none"]
    /\ UNCHANGED <<state_dict, sd_origin, heap, fwd_log, mapVars, regVars, itVars, callerVars, hookVars>>

\* module.engine = e  on a wrapper that has no engine.  TRTModule defines no
\* property or __setattr__ for engine, so the statement stores the attribute
\* and does nothing else.
AssignEngine(w) ==
    /\ wrappers[w].made
    /\ wrappers[w].engine = NoneVal
    /\ \E e \in Engines : wrappers' = [wrappers EXCEPT ![w].engine = e]
    /\ w_last' = [op |-> "assign", w |-> w, exc |-> "none"]
    /\ UNCHANGED <<state_dict, sd_origin, heap, fwd_log, mapVars, regVars, itVars, callerVars, hookVars>>

WrapInit ==
    /\ trt_version = DefaultVersion
    /\ MapIdle
    /\ WrapIdle
    /\ CONVERTERS = EmptyRegistry
    /\ RegIdle
    /\ CallerIdle
    /\ HookIdle
    /\ InterpIdle

WrapNext ==
    \/ \E w \in WrapperNames : NewTRTModule(w)
    \/ \E w \in WrapperNames : AssignEngine(w)
    \/ \E w \in WrapperNames : OnStateDict(w)
    \/ \E w \in WrapperNames : LoadFromStateDict(w)

SpecWrap == WrapInit /\ [][WrapNext]_vars

-----------------------------------------------------------------------------
(* The wrapper driven through construction and invocations.                *)

\* The positional inputs of a call: arg1, arg2, ...
InputTensors(k) == [i \in 1..k |-> Tensor("arg" \o ToString(i))]

\* module(*inputs): one forward() call, recorded with the wrapper it ran on.
Forward(w) ==
    /\ wrappers[w].made
    /\ Len(fwd_log) < MaxInvokes
    /\ OutputsBound(wrappers[w], EngineBindings(wrappers[w].engine))
    /\ \E k \in 0..MaxInputs :
          LET r == forward(wrappers[w], EngineBindings(wrappers[w].engine),
                           InputTensors(k), heap)
          IN /\ heap' = r.heap
             /\ fwd_log' = Append(fwd_log,
                    [self |-> wrappers[w], inputs |-> InputTensors(k),
                     out |-> r.out, exc |-> r.exc, val |-> r.val,
                     bindings |-> r.bindings])
    /\ UNCHANGED <<wrappers, state_dict, sd_origin, w_last, mapVars, regVars, itVars, callerVars, hookVars>>

InvokedWrappers == {"a"}

InvokeNext ==
    \/ \E w \in InvokedWrappers : NewTRTModule(w)
    \/ \E w \in InvokedWrappers : Forward(w)

SpecInvoke == WrapInit /\ [][InvokeNext]_vars

-----------------------------------------------------------------------------
(* The registry driven through registrations and lookups.                  *)

Register ==
    /\ Len(reg_log) < MaxRegs
    /\ \E key \in Keys, converter \in Routines :
          LET r == tensorrt_converter(CONVERTERS, key, converter) IN
          /\ CONVERTERS' = r.dict
          /\ reg_log' = Append(reg_log, [key |-> key, routine |-> converter,
                                         returned |-> r.ret])
    /\ looked' = NoLookup
    /\ UNCHANGED <<mapVars, wrapVars, itVars, callerVars, hookVars>>

Lookup ==
    /\ \E key \in Keys :
          looked' = [key |-> key, result |-> ConvertersGet(CONVERTERS, key)]
    /\ UNCHANGED <<CONVERTERS, reg_log, mapVars, wrapVars, itVars, callerVars, hookVars>>

RegInit ==
    /\ trt_version = DefaultVersion
    /\ MapIdle
    /\ WrapIdle
    /\ CONVERTERS = EmptyRegistry
    /\ RegIdle
    /\ CallerIdle
    /\ HookIdle
    /\ InterpIdle

RegNext == Register \/ Lookup

SpecReg == RegInit /\ [][RegNext]_vars

-----------------------------------------------------------------------------
(* The interpreter driven through construction and one run.                *)

\* interp = BaseTRTInterpreter(module, input_specs, explicit_batch_dimension)
Construct ==
    /\ pc = "new"
    /\ it' = BaseTRTInterpreter_init(arg_module, arg_specs, PyBool(arg_explicit),
                                      DefaultLoggerLevel)
    /\ pc' = "constructed"
    /\ UNCHANGED <<arg_module, arg_specs, arg_explicit, node_idx, run_result,
                   mapVars, wrapVars, regVars, callerVars, hookVars>>

\* interp.run(fp16_mode=...): up to the start of the graph walk.
RunBegin ==
    /\ pc = "constructed"
    /\ \E fp16_mode \in BOOLEAN :
          it' = [it EXCEPT !.fp16_mode = IF fp16_mode THEN "True" ELSE "False"]
    /\ node_idx' = 1
    /\ pc' = "walking"
    /\ UNCHANGED <<arg_module, arg_specs, arg_explicit, run_result,
                   mapVars, wrapVars, regVars, callerVars, hookVars>>

\* One iteration of Interpreter.run's loop:  self.env[node] = self.run_node(node),
\* returning from the walk at the output node.  An exception leaves run().
RunNode ==
    /\ pc = "walking"
    /\ LET n == it.module[node_idx]
           r == run_node(it, CONVERTERS, n)
       IN
       IF r.out = "raise"
       THEN /\ it' = r.self
            /\ pc' = "failed"
            /\ run_result' = [NoResult EXCEPT !.out = "raise", !.exc = r.val]
            /\ UNCHANGED node_idx
       ELSE /\ it' = [r.self EXCEPT !.env =
                        [k \in DOMAIN r.self.env \cup {n.name} |->
                            IF k = n.name THEN r.val ELSE r.self.env[k]]]
            /\ pc' = IF n.op = "output" THEN "visited" ELSE "walking"
            /\ node_idx' = IF n.op = "output" THEN node_idx ELSE node_idx + 1
            /\ UNCHANGED run_result
    /\ UNCHANGED <<arg_module, arg_specs, arg_explicit, mapVars, wrapVars, regVars, callerVars, hookVars>>

\* The rest of run(): configure the builder, build, assert(engine), return.
Build ==
    /\ pc = "visited"
    /\ \E engine \in BuilderAnswers :
          /\ it' = build_engine(it, engine)
          /\ run_result' = RunReturn(it, engine)
          /\ pc' = IF RunReturn(it, engine).out = "return" THEN "done" ELSE "failed"
    /\ UNCHANGED <<arg_module, arg_specs, arg_explicit, node_idx,
                   mapVars, wrapVars, regVars, callerVars, hookVars>>

\* TRTModule(engine, input_names, output_names)(*inputs) with the triple a
\* run returned and one input per input name: arg1, arg2, ...
Invoke ==
    /\ pc = "done"
    /\ fwd_log = <<>>
    /\ LET self == TRTModule_init(run_result.engine, List(run_result.input_names),
                                  List(run_result.output_names), FALSE)
           eb == NetworkBindings(it.network)
           inputs == InputTensors(Len(run_result.input_names))
           r == forward(self, eb, inputs, heap)
       IN /\ OutputsBound(self, eb)
          /\ heap' = r.heap
          /\ fwd_log' = Append(fwd_log,
                 [self |-> self, inputs |-> inputs, out |-> r.out, exc |-> r.exc,
                  val |-> r.val, bindings |-> r.bindings])
    /\ UNCHANGED <<wrappers, state_dict, sd_origin, w_last, itVars,
                   mapVars, regVars, callerVars, hookVars>>

Next == Construct \/ RunBegin \/ RunNode \/ Build \/ Invoke

\* Graphs with calls and outputs of every form, one specification per placeholder.
Init ==
    /\ trt_version = DefaultVersion
    /\ MapIdle
    /\ WrapIdle
    /\ CONVERTERS \in Registries
    /\ RegIdle
    /\ CallerIdle
    /\ HookIdle
    /\ arg_module \in GraphsCalls
    /\ arg_specs = [k \in 1..NumPlaceholders(arg_module) |-> DefaultSpec]
    /\ arg_explicit = FALSE
    /\ it = NoInterpreter
    /\ pc = "new"
    /\ node_idx = 0
    /\ run_result = NoResult

Spec == Init /\ [][Next]_vars

\* Graphs of placeholders, with every list of specifications and both kinds
\* of network.
InputsInit ==
    /\ trt_version = DefaultVersion
    /\ MapIdle
    /\ WrapIdle
    /\ CONVERTERS = EmptyRegistry
    /\ RegIdle
    /\ CallerIdle
    /\ HookIdle
    /\ arg_module \in GraphsInputs
    /\ arg_specs \in SeqsUpTo(SpecPool, MaxSpecs)
    /\ arg_explicit \in BOOLEAN
    /\ it = NoInterpreter
    /\ pc = "new"
    /\ node_idx = 0
    /\ run_result = NoResult

SpecInputs == InputsInit /\ [][Next]_vars

-----------------------------------------------------------------------------
(* The general-purpose interpreter TRTInterpreter driven through           *)
(* construction and one run.                                               *)

LoggerLevels == { Severity(n) : n \in {"ERROR", "WARNING", "INFO", "VERBOSE"} }

\* Where the parameters of the caller's module may live, and their precision.
ParamStates ==
    { [device |-> TorchDevice(d), dtype |-> TorchDtype(t)] :
        d \in {"cpu", "cuda"}, t \in {"float32", "float16"} }

\* interp = TRTInterpreter(module, input_specs, logger_level)
ConstructTRT ==
    /\ pc = "new"
    /\ LET r == TRTInterpreter_init(objects, caller, arg_specs, arg_logger) IN
          /\ objects' = r.objs
          /\ it' = r.self
    /\ pc' = "constructed"
    /\ UNCHANGED <<arg_module, arg_specs, arg_explicit, node_idx, run_result,
                   caller, arg_logger, caller0, mapVars, wrapVars, regVars,
                   hookVars>>

TRTNext == ConstructTRT \/ RunBegin \/ RunNode \/ Build \/ Invoke

\* A module, traced already or not, with its parameters on either device in
\* either precision, and any logger level.
TRTInit ==
    /\ trt_version = DefaultVersion
    /\ MapIdle
    /\ WrapIdle
    /\ CONVERTERS = EmptyRegistry
    /\ RegIdle
    /\ HookIdle
    /\ arg_module \in GraphsInputs
    /\ arg_specs = [k \in 1..NumPlaceholders(arg_module) |-> DefaultSpec]
    /\ arg_explicit = FALSE
    /\ it = NoInterpreter
    /\ pc = "new"
    /\ node_idx = 0
    /\ run_result = NoResult
    /\ caller \in { Module(k, 1, 1) : k \in {"Module", "GraphModule"} }
    /\ \E ps \in ParamStates :
          objects = [graphs |-> <<[nodes |-> arg_module, normalized |-> FALSE]>>,
                     params |-> <<ps>>]
    /\ arg_logger \in LoggerLevels
    /\ caller0 = objects

SpecTRT == TRTInit /\ [][TRTNext]_vars

-----------------------------------------------------------------------------
(* Training runs: every worker calls the run's hook on its bucket, the     *)
(* collective completes, and the chained callbacks run.                    *)

\* DDP calls the registered hook on worker k's bucket.
HookCall(r, k) ==
    /\ hook_of[r] # NoHook
    /\ ~world[r][k].called
    /\ world' = [world EXCEPT ![r][k] =
                    [CallHook(world[r][k], WorldSize, hook_of[r],
                              Len(hook_of[r].wraps)) EXCEPT !.called = TRUE]]
    /\ UNCHANGED <<hook_of, grads0, dtype0, mapVars, wrapVars, regVars, itVars, callerVars>>

\* The sum of the workers' tensors under reduction, element by element.
RECURSIVE SumOver(_, _, _)
SumOver(r, k, i) ==
    IF k = 0 THEN 0
    ELSE world[r][k].tensors[world[r][k].reducing].data[i] + SumOver(r, k - 1, i)

\* The collective of run r completes once every worker has entered it: each
\* worker's tensor holds the sum and its all_reduce future is done, with the
\* list [tensor] as value.
AllReduceDone(r) ==
    /\ \A k \in Workers : world[r][k].called /\ ~world[r][k].futs[1].done
    /\ world' = [world EXCEPT ![r] = [k \in Workers |->
          LET st == world[r][k] IN
          Complete([st EXCEPT !.tensors[st.reducing].data =
                       [i \in 1..Len(@) |-> SumOver(r, WorldSize, i)]],
                   1, st.reducing)]]
    /\ UNCHANGED <<hook_of, grads0, dtype0, mapVars, wrapVars, regVars, itVars, callerVars>>

\* A future of worker k whose parent is done runs its callback.
Callback(r, k) ==
    /\ \E j \in 2..Len(world[r][k].futs) :
          /\ world[r][k].futs[j - 1].done
          /\ ~world[r][k].futs[j].done
          /\ world' = [world EXCEPT ![r][k] =
                IF @.futs[j].cb = "decompress" THEN decompress(@, j)
                ELSE optimizer_step(@, j)]
    /\ UNCHANGED <<hook_of, grads0, dtype0, mapVars, wrapVars, regVars, itVars, callerVars>>

HookNext ==
    \/ \E r \in Runs, k \in Workers : HookCall(r, k)
    \/ \E r \in Runs : AllReduceDone(r)
    \/ \E r \in Runs, k \in Workers : Callback(r, k)

\* Buckets of either type holding any gradients, the same in every run.
HookInit(hooks) ==
    /\ trt_version = DefaultVersion
    /\ MapIdle
    /\ WrapIdle
    /\ CONVERTERS = EmptyRegistry
    /\ RegIdle
    /\ InterpIdle
    /\ CallerIdle
    /\ hook_of \in hooks
    /\ dtype0 \in {Float32, Float16}
    /\ \E g \in [Workers -> GradData] :
          grads0 = [k \in Workers |-> Cast(g[k], dtype0)]
    /\ world = [r \in Runs |-> [k \in Workers |-> NewWorker(dtype0, grads0[k])]]

\* Two runs on the same gradients: one with fp16_compress_hook, the other
\* with fp16_compress_wrapper(allreduce_hook).
CompressInit ==
    HookInit({ [r \in Runs |->
                  IF r = "r1" THEN Hook("fp16_compress_hook", <<>>)
                  ELSE Hook("allreduce_hook", <<"fp16_compress_wrapper">>)] })

SpecCompress == CompressInit /\ [][HookNext]_vars

\* The hooks hook_then_optimizer is applied to.
WrappedHooks ==
    { Hook("allreduce_hook", <<>>), Hook("fp16_compress_hook", <<>>),
      Hook("allreduce_hook", <<"fp16_compress_wrapper">>) }

\* One run with hook_then_optimizer(hook, optimizer_state) registered.
OptimInit ==
    HookInit({ [r \in Runs |->
                  IF r = "r1"
                  THEN Hook(hk.base, Append(hk.wraps, "hook_then_optimizer"))
                  ELSE NoHook] : hk \in WrappedHooks })

SpecOptim == OptimInit /\ [][HookNext]_vars

-----------------------------------------------------------------------------
(* Properties of the wrapper's saved state.                                *)

\* C1: after a wrapper is loaded from the state dict that a ready wrapper
\* filled, its engine bytes, input_names, output_names and fp16_output all
\* equal those of the wrapper that was saved, whatever it held before.
C1_RoundTripRestoresRecord ==
    (w_last.op = "load" /\ w_last.exc = "none") =>
        LET loaded == wrappers[w_last.w] IN
        /\ EngineBytes(loaded.engine) = EngineBytes(sd_origin.engine)
        /\ loaded.input_names = sd_origin.input_names
        /\ loaded.output_names = sd_origin.output_names
        /\ loaded.fp16_output = sd_origin.fp16_output

-----------------------------------------------------------------------------
(* Properties of the type / device mapping layer.                          *)

\* C2: both device mappings send host to host and accelerator to accelerator,
\* and for every other device the call raises a TypeError naming the value.
C2_DeviceMappingRaises ==
    /\ m_call = "torch_device_to_trt" =>
          IF m_arg = TorchDevice("cpu") THEN m_res = Return(TrtLocation("HOST"))
          ELSE IF m_arg = TorchDevice("cuda")
          THEN m_res = Return(TrtLocation("DEVICE"))
          ELSE m_res = Raise("TypeError", m_arg.v)
    /\ m_call = "torch_device_from_trt" =>
          IF m_arg = TrtLocation("HOST") THEN m_res = Return(TorchDevice("cpu"))
          ELSE IF m_arg = TrtLocation("DEVICE")
          THEN m_res = Return(TorchDevice("cuda"))
          ELSE m_res = Raise("TypeError", m_arg.v)

\* The major number of a version string: its digits before the first dot.
RECURSIVE MajorFrom(_, _)
MajorFrom(s, acc) ==
    IF s = <<>> \/ Head(s) = "." THEN acc
    ELSE MajorFrom(Tail(s), 10 * acc + (Ord(Head(s)) - 48))

\* The engine library has a boolean type from release 7.0 on.
EngineHasBool == MajorFrom(trt_version, 0) >= 7

SupportedDtypeNames ==
    {"int8", "int32", "float16", "float32"}
        \cup (IF EngineHasBool THEN {"bool"} ELSE {})

\* C3: for every supported scalar type d (bool included when the engine
\* version has it) torch_dtype_from_trt(torch_dtype_to_trt(d)) = d, and for
\* every unsupported one both directions raise a TypeError.
C3_DtypeRoundTrip ==
    /\ (m_call = "torch_dtype_to_trt" /\ m_arg.v \in SupportedDtypeNames) =>
          /\ m_res.out = "return"
          /\ m_back # NoOutcome => m_back = Return(m_arg)
    /\ (m_call = "torch_dtype_to_trt" /\ m_arg.v \notin SupportedDtypeNames) =>
          m_res = Raise("TypeError", m_arg.v)
    /\ (m_call = "torch_dtype_from_trt" /\ m_arg.v \notin SupportedDtypeNames) =>
          m_res = Raise("TypeError", m_arg.v)

-----------------------------------------------------------------------------
(* Properties of placeholder visits.                                       *)

\* Node i of the graph has been handed to run_node (it returned or raised).
Visited(i) ==
    \/ pc = "walking" /\ node_idx > i
    \/ pc = "failed" /\ node_idx >= i
    \/ pc \in {"visited", "done"}

\* The shape placeholder() registers for a specification.
RegisteredShape(net, spec) ==
    IF net.implicit /\ spec.has_batch_dim
    THEN SubSeq(spec.shape, 2, Len(spec.shape)) ELSE spec.shape

\* C4: a successful run of a graph with N placeholders has consumed exactly N
\* specifications, and at every moment the k-th input binding of the network
\* is the k-th placeholder registered with the k-th specification supplied
\* (its shape and its mapped dtype).
C4_SpecsConsumedInOrder ==
    /\ pc = "done" =>
          /\ it.spec_pos = NumPlaceholders(it.module)
          /\ Len(it.network.inputs) = NumPlaceholders(it.module)
    /\ it.made =>
          \A k \in 1..Len(it.network.inputs) :
             /\ k <= it.spec_pos
             /\ k <= Len(arg_specs)
             /\ it.module[k].op = "placeholder"
             /\ it.network.inputs[k].name = it.module[k].target.v
             /\ it.network.inputs[k].shape
                   = RegisteredShape(it.network, arg_specs[k])
             /\ Return(it.network.inputs[k].dtype)
                   = torch_dtype_to_trt(arg_specs[k].dtype)

\* A run that succeeded on two placeholders given two different specifications.
C4_Witness ==
    /\ pc = "done"
    /\ NumPlaceholders(it.module) = 2
    /\ Len(it.network.inputs) = 2
    /\ arg_specs[1].shape # arg_specs[2].shape
    /\ arg_specs[1].has_batch_dim # arg_specs[2].has_batch_dim

\* C5: when no specification remains for a placeholder the visit raises
\* StopIteration, run() returns no engine, and the placeholder is neither an
\* input of the network nor in the input-name list.
C5_ExhaustedLeavesNoTrace ==
    (pc = "failed" /\ run_result.exc.tag = "StopIteration") =>
        LET n == it.module[node_idx] IN
        /\ n.op = "placeholder"
        /\ node_idx > Len(arg_specs)
        /\ run_result.engine = NoneVal
        /\ it.build_calls = 0
        /\ \A i \in 1..Len(it.network.inputs) :
              it.network.inputs[i].name # n.target.v
        /\ \A i \in 1..Len(it.input_names) : it.input_names[i] # n.target.v

MissingBatchDimension ==
    Val("AssertionError",
        "It's required to specify batch dimension when it's explicit in TensorRT network.")

\* C6: on an explicit-batch network, a placeholder visited with a
\* specification that has no batch dimension raises the assertion and adds no
\* input to the network; with a batch dimension (and a supported dtype) it is
\* registered with the specification's full shape.
C6_ExplicitNeedsBatchDim ==
    (it.made /\ ~it.network.implicit) =>
        \A k \in 1..NumPlaceholders(it.module) :
            (Visited(k) /\ k <= Len(arg_specs)) =>
                IF ~arg_specs[k].has_batch_dim
                THEN /\ pc = "failed"
                     /\ node_idx = k
                     /\ run_result.exc = MissingBatchDimension
                     /\ Len(it.network.inputs) = k - 1
                     /\ \A i \in 1..Len(it.network.inputs) :
                           it.network.inputs[i].name # it.module[k].target.v
                ELSE torch_dtype_to_trt(arg_specs[k].dtype).out = "return" =>
                     /\ Len(it.network.inputs) >= k
                     /\ it.network.inputs[k].name = it.module[k].target.v
                     /\ it.network.inputs[k].shape = arg_specs[k].shape

\* An explicit-batch run whose first placeholder was registered in full and
\* whose second one failed for want of a batch dimension.
C6_Witness ==
    /\ it.made
    /\ ~it.network.implicit
    /\ pc = "failed"
    /\ node_idx = 2
    /\ run_result.exc = MissingBatchDimension
    /\ Len(it.network.inputs) = 1
    /\ it.network.inputs[1].shape = <<1, 3>>

-----------------------------------------------------------------------------
(* Properties of the conversion registry.                                  *)

\* The routine of the most recent registration of key among the first n
\* entries of the log, or None when the key was never registered.
RECURSIVE LastRegistered(_, _, _)
LastRegistered(log, n, key) ==
    IF n = 0 THEN NoneVal
    ELSE IF log[n].key = key THEN log[n].routine
    ELSE LastRegistered(log, n - 1, key)

\* C7: after any sequence of registrations, every registration returned its
\* routine unchanged; the registry holds for each key exactly the routine of
\* the most recent registration of that key, so registering one key leaves
\* the others alone; and a lookup of a key gets that routine, or None for a
\* key never registered.
C7_LastWriteWins ==
    /\ \A i \in 1..Len(reg_log) : reg_log[i].returned = reg_log[i].routine
    /\ \A key \in Keys :
          /\ (key \in DOMAIN CONVERTERS)
                <=> (\E i \in 1..Len(reg_log) : reg_log[i].key = key)
          /\ key \in DOMAIN CONVERTERS =>
                CONVERTERS[key] = LastRegistered(reg_log, Len(reg_log), key)
    /\ looked # NoLookup =>
          looked.result = LastRegistered(reg_log, Len(reg_log), looked.key)

\* A key registered twice with different routines, another key registered in
\* between, a third never registered, and the first key looked up.
C7_Witness ==
    /\ Len(reg_log) = 3
    /\ reg_log[1].key = reg_log[3].key
    /\ reg_log[1].routine # reg_log[3].routine
    /\ reg_log[2].key # reg_log[1].key
    /\ looked.key = reg_log[1].key
    /\ looked.result = reg_log[3].routine

-----------------------------------------------------------------------------
(* Properties of call and output visits.                                   *)

\* The registry key of a call node and the words its error message uses.
KeyOf(n) == IF n.op = "call_module" THEN SubmoduleType(n.target.v) ELSE n.target
OperatorWords(n) ==
    IF n.op = "call_module" THEN "module of type " \o KeyOf(n).v
    ELSE IF n.op = "call_function" THEN "function " \o KeyOf(n).v
    ELSE "method " \o KeyOf(n).v
UnsupportedOperator(n) ==
    Val("RuntimeError", "Conversion of " \o OperatorWords(n) \o " not currently supported!")

\* The call nodes of the graph whose key has no routine in the registry.
UnregisteredCalls ==
    { i \in 1..Len(it.module) :
        /\ it.module[i].op \in OpKinds
        /\ KeyOf(it.module[i]) \notin DOMAIN CONVERTERS }

IsUnsupportedOperator(exc) ==
    exc \in { UnsupportedOperator(it.module[i]) : i \in 1..Len(it.module) }

\* C8: a run over a graph with a call whose key is unregistered never gets to
\* the builder (no configuration, no build_engine call, no result); the visit
\* of such a call raises the RuntimeError that names its operator; and that
\* error is raised by no other node, so never by a call whose key is registered.
C8_UnregisteredFailsBeforeBuild ==
    it.made =>
        /\ UnregisteredCalls # {} =>
              /\ ~it.config_created
              /\ it.build_calls = 0
              /\ pc \notin {"visited", "done"}
              /\ run_result.out # "return"
        /\ \A i \in UnregisteredCalls :
              Visited(i) =>
                 /\ pc = "failed"
                 /\ node_idx = i
                 /\ run_result.exc = UnsupportedOperator(it.module[i])
        /\ (pc = "failed" /\ IsUnsupportedOperator(run_result.exc)) =>
              node_idx \in UnregisteredCalls

\* A run that registered its placeholder and then failed on an unregistered
\* module call, while another key was registered.
C8_Witness ==
    /\ pc = "failed"
    /\ it.module[node_idx].op = "call_module"
    /\ run_result.exc = UnsupportedOperator(it.module[node_idx])
    /\ Len(it.network.inputs) = 1
    /\ FunctionKey \in DOMAIN CONVERTERS

\* The results carried by the output node, as output() receives them.
OutputNodeOf(g) == g[Len(g)]
OutputResults == Resolve(it, OutputNodeOf(it.module).args).elems

OutputName(i) == "output" \o ToString(i)

\* The tensors the network has as outputs.
NetworkOutputs == { it.network.outputs[i] : i \in 1..Len(it.network.outputs) }

\* C9: once output() has returned for results that are all tensors, the i-th
\* result (counting from 0) is named "output<i>" and is marked as an output,
\* the network has as many outputs as there are results, and the output-name
\* list is "output0" .. "output<n-1>" in order.
C9_OutputsNamedInOrder ==
    (pc \in {"visited", "done"}) =>
        LET outs == OutputResults IN
        /\ it.output_names = [i \in 1..Len(outs) |-> OutputName(i - 1)]
        /\ Cardinality(NetworkOutputs) = Len(outs)
        /\ \A i \in 1..Len(outs) :
              /\ outs[i] \in NetworkOutputs
              /\ it.network.tensors[TensorIndex(it.network, outs[i])].name
                    = OutputName(i - 1)

NonTensorOutput ==
    Val("RuntimeError", "TensorRT requires all outputs to be Tensor!")

\* The step that visits the output node while one of its results is no tensor.
VisitsNonTensorOutput ==
    /\ pc = "walking"
    /\ it.module[node_idx].op = "output"
    /\ \E i \in 1..Len(OutputResults) : ~IsITensor(OutputResults[i])

\* C10: visiting an output node that carries a result which is no tensor
\* raises the RuntimeError for it and leaves the network (names, dtypes and
\* marked outputs of every tensor) and the output-name list as they were.
C10_NonTensorOutputAtomic ==
    [][VisitsNonTensorOutput =>
          /\ pc' = "failed"
          /\ run_result'.exc = NonTensorOutput
          /\ it'.network = it.network
          /\ it'.output_names = it.output_names
          /\ it'.input_names = it.input_names]_vars

\* A failed output visit whose tuple had a tensor before the offending value.
C10_Witness ==
    /\ pc = "failed"
    /\ run_result.exc = NonTensorOutput
    /\ OutputNodeOf(it.module).args.isTuple
    /\ Len(OutputResults) = 2
    /\ IsITensor(OutputResults[1])
    /\ ~IsITensor(OutputResults[2])

-----------------------------------------------------------------------------
(* Properties of the wrapper's states.                                     *)

\* The wrapper holds an execution context made from the engine it holds now.
HasContextOfEngine(self) == self.context = create_execution_context(self.engine)

\* C11: in every reachable state, after any sequence of constructions (with
\* or without an engine), assignments of an engine to a wrapper without one,
\* saves and loads, a wrapper holds an execution context derived from its
\* current engine if and only if it holds an engine.
C11_ContextIffEngine ==
    \A w \in WrapperNames :
        wrappers[w].made =>
            ((wrappers[w].engine # NoneVal) <=> HasContextOfEngine(wrappers[w]))

\* The tensors a forward() call handed back.
Handed(call) == { call.val.elems[i] : i \in 1..Len(call.val.elems) }

\* C12: a forward() call that returns hands back the single output tensor
\* (not a tuple) when the wrapper declares exactly one output name, and
\* otherwise a tuple with one tensor per output name, in output-name order,
\* the i-th being the tensor bound at the engine binding of the i-th name;
\* the tensors of a call are distinct from each other, from the inputs and
\* from the tensors handed back by every other call.
C12_ForwardResultFresh ==
    /\ \A c \in 1..Len(fwd_log) :
          fwd_log[c].out = "return" =>
             LET call == fwd_log[c]
                 names == call.self.output_names.items
                 eb == EngineBindings(call.self.engine)
             IN
             /\ call.val.isTuple <=> Len(names) # 1
             /\ Len(call.val.elems) = Len(names)
             /\ Cardinality(Handed(call)) = Len(names)
             /\ \A i \in 1..Len(names) :
                   /\ call.val.elems[i]
                         = call.bindings[get_binding_index(eb, names[i]) + 1]
                   /\ \A j \in 1..Len(call.inputs) :
                         call.val.elems[i] # call.inputs[j]
    /\ \A c, d \in 1..Len(fwd_log) :
          c # d => Handed(fwd_log[c]) \cap Handed(fwd_log[d]) = {}

\* Two calls that returned on a wrapper with two outputs whose binding order
\* differs from their name order.
C12_Witness ==
    /\ Len(fwd_log) = 2
    /\ fwd_log[1].out = "return"
    /\ fwd_log[2].out = "return"
    /\ fwd_log[1].self.output_names.items = <<"output0", "output1">>
    /\ fwd_log[1].self.engine = Engine("planB")
    /\ fwd_log[1].val.elems # fwd_log[2].val.elems

-----------------------------------------------------------------------------
(* Properties of the communication hooks.                                  *)

\* The future the hook returned to DDP, and whether it is done.
Returned_fut(st) == st.futs[Len(st.futs)]
HookDone(st) == st.called /\ Returned_fut(st).done

\* The tensor that is the value of the returned future, and the bucket's.
ValueTensor(st) == st.tensors[Returned_fut(st).value]
BucketTensor(st) == st.tensors[st.bucket]

\* C13: on every worker, once the futures returned by fp16_compress_hook and
\* by fp16_compress_wrapper(allreduce_hook) are both done, their values have
\* the same contents and both have the data type the bucket started with,
\* and both buckets hold a tensor of that type with those contents.
C13_CompressEquivalent ==
    \A k \in Workers :
        (HookDone(world["r1"][k]) /\ HookDone(world["r2"][k])) =>
            LET a == world["r1"][k]
                b == world["r2"][k]
            IN
            /\ ValueTensor(a).data = ValueTensor(b).data
            /\ ValueTensor(a).dtype = dtype0
            /\ ValueTensor(b).dtype = dtype0
            /\ BucketTensor(a) = ValueTensor(a)
            /\ BucketTensor(b) = ValueTensor(b)

\* The future of the hook that hook_then_optimizer wraps.
Wrapped_fut(st) == st.futs[Len(st.futs) - 1]

\* C18: on every worker of a run with hook_then_optimizer(hook, state), no
\* step_param call is made before the wrapped hook's future is done; the
\* calls are made all together, one per (parameter, gradient) pair of the
\* bucket, in bucket order; and the returned future is done only after them,
\* with the bucket's tensor as its value.
C18_StepAfterHook ==
    \A k \in Workers :
        LET st == world["r1"][k] IN
        /\ ~st.called => st.steps = <<>>
        /\ st.called =>
              /\ ~Wrapped_fut(st).done => st.steps = <<>>
              /\ \A i \in 1..Len(st.steps) : st.steps[i].fut_done
              /\ st.steps # <<>> <=> Returned_fut(st).done
              /\ Returned_fut(st).done =>
                    /\ Returned_fut(st).cb = "optimizer_step"
                    /\ Returned_fut(st).value = st.bucket
                    /\ Len(st.steps) = Len(ModelParams)
                    /\ \A i \in 1..Len(st.steps) :
                          /\ st.steps[i].param = ModelParams[i]
                          /\ st.steps[i].grad.tensor = st.bucket
                          /\ st.steps[i].grad.slice = i
                          /\ st.steps[i].grad.value = BucketTensor(st).data[i]

\* A worker whose optimizer step ran after a decompress callback, on reduced
\* gradients that differ between the parameters, while another worker's
\* callbacks have not run yet.
C18_Witness ==
    /\ hook_of["r1"].wraps = <<"fp16_compress_wrapper", "hook_then_optimizer">>
    /\ \E k, o \in Workers :
          /\ HookDone(world["r1"][k])
          /\ Len(world["r1"][k].steps) = 2
          /\ world["r1"][k].steps[1].grad.value # world["r1"][k].steps[2].grad.value
          /\ ~Wrapped_fut(world["r1"][o]).done

-----------------------------------------------------------------------------
(* Properties of TRTInterpreter's construction.                            *)

\* C14: once TRTInterpreter has been constructed, and through the run that
\* follows, the caller's module has the graph, the device placement and the
\* parameter precision it had before, whether it was traced already or not.
C14_CallerModuleUntouched ==
    (pc # "new" /\ caller # NoModule) =>
        /\ objects.graphs[caller.graph] = caller0.graphs[caller.graph]
        /\ objects.params[caller.params].device
              = caller0.params[caller.params].device
        /\ objects.params[caller.params].dtype
              = caller0.params[caller.params].dtype

\* C20: TRTInterpreter(module, input_specs, logger_level) has an
\* implicit-batch network and the caller's logger_level as its logger level.
C20_ImplicitBatchAndLogger ==
    (pc # "new" /\ caller # NoModule) =>
        /\ it.network.implicit
        /\ it.logger_level = arg_logger

-----------------------------------------------------------------------------
(* Properties of the end of a run and of the names it hands on.            *)

EngineBuildFailed == Val("AssertionError", "")

\* Every node of the graph has been visited and has left its value.
AllNodesVisited ==
    \A i \in 1..Len(it.module) : it.module[i].name \in DOMAIN it.env

\* C15: when the builder answers with no engine, run() raises the assertion
\* error and hands back nothing (no engine, no name list); run() returns its
\* triple only with the engine the builder produced; and build_engine is
\* called at most once, after every node of the graph has been visited.
C15_BuildFailureAtomic ==
    /\ it.build_calls <= 1
    /\ it.build_calls = 1 =>
          /\ AllNodesVisited
          /\ pc \in {"done", "failed"}
          /\ it.built = NoneVal =>
                /\ pc = "failed"
                /\ run_result.out = "raise"
                /\ run_result.exc = EngineBuildFailed
                /\ run_result.engine = NoneVal
                /\ run_result.input_names = <<>>
                /\ run_result.output_names = <<>>
    /\ run_result.out = "return" =>
          /\ it.build_calls = 1
          /\ it.built # NoneVal
          /\ run_result.engine = it.built
          /\ run_result.input_names = it.input_names
          /\ run_result.output_names = it.output_names
    /\ run_result.exc = EngineBuildFailed => (it.build_calls = 1 /\ it.built = NoneVal)

\* A run that visited a placeholder, a call and the output node and then got
\* no engine from the builder.
C15_Witness ==
    /\ pc = "failed"
    /\ it.build_calls = 1
    /\ it.built = NoneVal
    /\ run_result.exc = EngineBuildFailed
    /\ Len(it.network.layers) = 1
    /\ Len(it.input_names) = 1
    /\ Len(it.output_names) = 2

\* The names of the placeholders of a graph, in graph order.
RECURSIVE PlaceholderTargets(_)
PlaceholderTargets(g) ==
    IF g = <<>> THEN <<>>
    ELSE (IF Head(g).op = "placeholder" THEN <<Head(g).target.v>> ELSE <<>>)
            \o PlaceholderTargets(Tail(g))

\* C17: the input-name list a run returns is the sequence of the names of the
\* graph's placeholders in the order visited; and a wrapper made of the
\* returned triple, invoked with one input per name, has its i-th input
\* bound at the engine binding of the i-th name, which is the binding of the
\* network input the i-th placeholder registered.
C17_InputsFeedPlaceholders ==
    /\ run_result.out = "return" =>
          run_result.input_names = PlaceholderTargets(it.module)
    /\ \A c \in 1..Len(fwd_log) :
          (pc = "done" /\ fwd_log[c].out = "return") =>
             LET call == fwd_log[c]
                 eb == NetworkBindings(it.network)
             IN \A i \in 1..Len(run_result.input_names) :
                   /\ get_binding_index(eb, run_result.input_names[i]) = i - 1
                   /\ call.bindings[i] = call.inputs[i]

-----------------------------------------------------------------------------
(* Properties of the shapes and names the handlers use.                    *)

\* A shape without its leading entry.
WithoutLeading(shape) == IF shape = <<>> THEN <<>> ELSE Tail(shape)

\* C16: the k-th input of the network, registered by the k-th placeholder
\* with the k-th specification, has on an implicit-batch network the
\* specification's shape without its leading entry when has_batch_dim is
\* true and the specification's shape when it is false, and on an
\* explicit-batch network always the specification's shape.
C16_BatchDimStripped ==
    it.made =>
        \A k \in 1..Len(it.network.inputs) :
            /\ k <= Len(arg_specs)
            /\ it.network.inputs[k].shape =
                  IF it.network.implicit
                  THEN IF arg_specs[k].has_batch_dim
                       THEN WithoutLeading(arg_specs[k].shape)
                       ELSE arg_specs[k].shape
                  ELSE arg_specs[k].shape

\* An implicit-batch network with two inputs registered: one whose
\* specification has a batch dimension, which was removed, and one whose
\* specification has none and the same shape.
C16_Witness ==
    /\ it.made
    /\ it.network.implicit
    /\ Len(it.network.inputs) = 2
    /\ arg_specs[1].has_batch_dim
    /\ ~arg_specs[2].has_batch_dim
    /\ arg_specs[1].shape = <<1, 3>>
    /\ arg_specs[2].shape = <<1, 3>>
    /\ it.network.inputs[1].shape = <<3>>
    /\ it.network.inputs[2].shape = <<1, 3>>

\* The positions of the call nodes of a graph, in graph order.
RECURSIVE CallPositions(_, _)
CallPositions(g, i) ==
    IF i > Len(g) THEN <<>>
    ELSE (IF g[i].op \in OpKinds THEN <<i>> ELSE <<>>) \o CallPositions(g, i + 1)

\* The node most recently handed to run_node, or 0.
LastVisited ==
    IF pc = "walking" THEN node_idx - 1
    ELSE IF pc = "failed" THEN (IF it.build_calls = 0 THEN node_idx ELSE Len(it.module))
    ELSE IF pc \in {"visited", "done"} THEN Len(it.module)
    ELSE 0

\* C19: the j-th conversion routine called during the walk received the name
\* of the j-th call node of the graph, the node then being visited; and the
\* current-node name is the name of the node most recently handed to
\* run_node, unset only while no node has been.
C19_ConverterGetsNodeName ==
    it.made =>
        /\ Len(it.network.layers) <= Len(CallPositions(it.module, 1))
        /\ \A j \in 1..Len(it.network.layers) :
              /\ j <= Len(CallPositions(it.module, 1))
              /\ CallPositions(it.module, 1)[j] <= LastVisited
              /\ it.network.layers[j].name
                    = it.module[CallPositions(it.module, 1)[j]].name
        /\ it.cur_node_name =
              IF LastVisited = 0 THEN NoneVal
              ELSE Val("str", it.module[LastVisited].name)

\* A walk that has called the routine of a call node that follows a
\* placeholder and is now past it.
C19_Witness ==
    /\ pc \in {"walking", "visited"}
    /\ Len(it.network.layers) = 1
    /\ Len(it.network.inputs) = 1
    /\ it.network.layers[1].name = "n1"
    /\ it.module[2].op \in OpKinds

====
